---------------------------- MODULE Spec2Model ----------------------------
(***************************************************************************)
(* Model of the three LangChainGuides notebooks:                           *)
(*   ChatWithPodcast.ipynb      - PDF pages -> RecursiveCharacterTextSplitter *)
(*                                -> Chroma -> RetrievalQA                 *)
(*   ChatWithObsidian.ipynb     - notes -> VectorstoreIndexCreator ->      *)
(*                                index.query_with_sources                 *)
(*   ContentIdeaGenerator.ipynb - execute_chain: transcript -> summary ->  *)
(*                                content ideas                            *)
(* Each notebook is a separate program, so each has its own next-state     *)
(* relation and specification (SpecChunk, SpecIdea, SpecRag) over its own  *)
(* variables; the variables of the other notebooks stay at their initial   *)
(* values.  SpecForm is the idea generator again, with the calls of        *)
(* several submissions of its web form side by side.  SpecCos is the       *)
(* podcast notebook's cosine_similarity, called on pairs of vectors.       *)
(***************************************************************************)
EXTENDS Integers, Sequences, FiniteSets, TLC

VARIABLES
    \* ChatWithPodcast.ipynb, splitting cell
    cpc,            \* "start" | "ctor_error" | "ready" | "split"
    chunkSize,      \* chunk_size given to the splitter
    chunkOverlap,   \* chunk_overlap given to the splitter
    text,           \* page_content of the document being split
    chunks,         \* chunks of that document, in output order, as ranges of text
    splitError,     \* TRUE when split_documents raised
    docMetadata,    \* metadata of the document being split
    chunkMetadata,  \* metadata of each chunk of that document, in output order
    \* ContentIdeaGenerator.ipynb, execute_chain
    ipc,            \* where the current execute_chain call is
    request,        \* its arguments: url, info_about_me, info_about_audience
    vidId,          \* get_transcript_and_metadata's local variable "vid_id"
    loaded,         \* what YoutubeLoader(vid_id).load() did
    transcript,     \* execute_chain's local variable "transcript"
    inputs,         \* the dict given to overall_chain
    llmCalls,       \* language-model calls made for this request
    summary,        \* output of summary_chain
    output,         \* what execute_chain returned
    known,          \* overall_chain's known values: its inputs and the outputs of the chains run
    prompts,        \* the chains run so far, each with the values given to its prompt
    missing,        \* input variables a chain asked for that were not known
    \* ChatWithObsidian.ipynb and ChatWithPodcast.ipynb, the index and its queries
    rpc,            \* "empty" | "ready" | "asked" | "embedded" | "retrieved" | "prompted" | "generated" | "answered"
    index,          \* the entries of the vector store that vectordb / index is bound to
    disk,           \* the rows of the persist directory
    built,          \* the entries of the store as from_documents returned it
    reopened,       \* TRUE once vectordb was bound to a store read from the persist directory
    tieBreak,       \* the store's order of entries that are equally near
    embeddingFunction, \* the store's embedding function
    question,       \* the question of the current query
    chain,          \* "query_with_sources" | "retrieval_qa" | "similarity_search"
    kArg,           \* the number of results asked for (k)
    queryVector,    \* the embedded question
    retrieved,      \* the entries the store returned, best first
    prompt,         \* the prompt given to the language model, line by line
    completion,     \* what the language model wrote
    answer,         \* the answer text of the result
    sources,        \* the source identifiers the result reports
    stages,         \* the stages of the current query that were run, in order
    \* ContentIdeaGenerator.ipynb, the calls of execute_chain made by the launched form
    calls,          \* for every submission: where its call is, its url and its local variables
    \* ChatWithPodcast.ipynb, cosine_similarity
    cospc,          \* "start" | "returned"
    vec1,           \* first argument
    vec2,           \* second argument
    dotProduct,     \* dot_product
    normVec1,       \* norm_vec1
    normVec2,       \* norm_vec2
    cosSim          \* cos_sim, the value returned

chunkVars == <<cpc, chunkSize, chunkOverlap, text, chunks, splitError, docMetadata,
               chunkMetadata>>

ideaVars == <<ipc, request, vidId, loaded, transcript, inputs, llmCalls, summary,
              output, known, prompts, missing>>

ragVars == <<rpc, index, disk, built, reopened, tieBreak, embeddingFunction, question,
             chain, kArg, queryVector, retrieved, prompt, completion, answer, sources,
             stages>>

formVars == <<calls>>

cosVars == <<cospc, vec1, vec2, dotProduct, normVec1, normVec2, cosSim>>

vars == <<chunkVars, ideaVars, ragVars, formVars, cosVars>>

(***************************************************************************)
(* Bounds of the model.                                                    *)
(***************************************************************************)
MaxLen == 5
MaxS == 4

(***************************************************************************)
(* ChatWithPodcast.ipynb: the constants of the splitting cell.             *)
(***************************************************************************)
CHUNK_SIZE == 1200
CHUNK_OVERLAP == 200

(***************************************************************************)
(* Text.  A text is a sequence of characters; "a" stands for any           *)
(* non-whitespace character.  A piece or a chunk of a text is the range    *)
(* [lo, hi] of the positions it was cut from: the splitter only cuts the   *)
(* text and joins neighbouring pieces with the empty string, so a range    *)
(* names both the content and where it came from.                          *)
(***************************************************************************)
Alphabet == {"a", " ", "\n"}

Texts == UNION {[1..n -> Alphabet] : n \in 0..MaxLen}

\* str.strip() removes these.
IsSpace(c) == c \in {" ", "\n"}

Content(t, r) == SubSeq(t, r.lo, r.hi)

PieceLen(r) == r.hi - r.lo + 1

\* RecursiveCharacterTextSplitter's default separators: "\n\n", "\n", " ", "".
Separators == << <<"\n", "\n">>, <<"\n">>, <<" ">>, <<>> >>

\* sep occurs in t at position p, inside [.., hi].
MatchAt(t, p, hi, sep) ==
    /\ p + Len(sep) - 1 <= hi
    /\ \A j \in 1..Len(sep) : t[p + j - 1] = sep[j]

\* re.search(sep, text) on the range [lo, hi].
Found(t, lo, hi, sep) == \E p \in lo..hi : MatchAt(t, p, hi, sep)

\* The starts of the leftmost non-overlapping matches of sep, as re.split finds them.
RECURSIVE Matches(_, _, _, _)
Matches(t, p, hi, sep) ==
    IF p > hi THEN <<>>
    ELSE IF MatchAt(t, p, hi, sep)
         THEN <<p>> \o Matches(t, p + Len(sep), hi, sep)
         ELSE Matches(t, p + 1, hi, sep)

\* _split_text_with_regex(text, separator, keep_separator=True): list(text) for
\* the empty separator; otherwise the text before the first match, then one
\* piece per match that starts with the separator; empty pieces are dropped.
SplitTextWithRegex(t, lo, hi, sep) ==
    IF sep = <<>>
    THEN [i \in 1..(hi - lo + 1) |-> [lo |-> lo + i - 1, hi |-> lo + i - 1]]
    ELSE LET ms == Matches(t, lo, hi, sep)
             n == Len(ms)
             raw == [i \in 1..(n + 1) |->
                        [lo |-> IF i = 1 THEN lo ELSE ms[i - 1],
                         hi |-> IF i = n + 1 THEN hi ELSE ms[i] - 1]]
         IN SelectSeq(raw, LAMBDA r : r.lo <= r.hi)

\* Variant of Strip: lstrip(), leading whitespace only.
StripLeading(t, r) ==
    LET solid == {p \in r.lo..r.hi : ~IsSpace(t[p])}
    IN IF solid = {} THEN [lo |-> r.lo, hi |-> r.lo - 1]
       ELSE [lo |-> CHOOSE p \in solid : \A q \in solid : p <= q, hi |-> r.hi]

\* text.strip() of the range r: the range without its leading and trailing
\* whitespace; lo > hi when nothing is left.
Strip(t, r) ==
    LET solid == {p \in r.lo..r.hi : ~IsSpace(t[p])}
    IN IF solid = {} THEN [lo |-> r.lo, hi |-> r.lo - 1]
       ELSE [lo |-> CHOOSE p \in solid : \A q \in solid : p <= q,
             hi |-> CHOOSE p \in solid : \A q \in solid : p >= q]

\* _join_docs(docs, ""): the joined pieces, stripped; None (here no chunk) when
\* the result is empty.
JoinDocs(t, cur) ==
    IF cur = <<>> THEN <<>>
    ELSE LET s == Strip(t, [lo |-> cur[1].lo, hi |-> cur[Len(cur)].hi])
         IN IF s.lo > s.hi THEN <<>> ELSE <<s>>

\* Variant of Overflows: the length of the split to add is left out.
OverflowsLate(total, len, S) == total > S

\* _merge_splits: "total + _len + separator_len > self._chunk_size", separator "".
Overflows(total, len, S) == total + len > S

\* Variant of KeepPopping: the overlap cap "total > self._chunk_overlap" is left out.
KeepPoppingUncapped(total, len, S, O) ==
    total + len > S /\ total > 0

\* _merge_splits: the condition of the "keep on popping" loop.
KeepPopping(total, len, S, O) ==
    total > O \/ (total + len > S /\ total > 0)

\* _merge_splits: the popping loop; current_doc[0] of an empty list raises IndexError.
RECURSIVE PopOverlap(_, _, _, _, _)
PopOverlap(cur, total, len, S, O) ==
    IF KeepPopping(total, len, S, O)
    THEN IF cur = <<>>
         THEN [cur |-> cur, total |-> total, err |-> TRUE]
         ELSE PopOverlap(Tail(cur), total - PieceLen(cur[1]), len, S, O)
    ELSE [cur |-> cur, total |-> total, err |-> FALSE]

\* Variant of FlushLast: the last current_doc is not emitted.
FlushNothing(t, cur) == <<>>

\* _merge_splits: what is emitted for current_doc after the loop over the splits.
FlushLast(t, cur) == JoinDocs(t, cur)

\* _merge_splits(splits, ""), from split i on, with the docs emitted so far,
\* current_doc and total.
RECURSIVE MergeFrom(_, _, _, _, _, _, _, _)
MergeFrom(t, splits, i, docs, cur, total, S, O) ==
    IF i > Len(splits)
    THEN [docs |-> docs \o FlushLast(t, cur), err |-> FALSE]
    ELSE LET d == splits[i]
             len == PieceLen(d)
         IN IF Overflows(total, len, S) /\ cur # <<>>
            THEN LET emitted == docs \o JoinDocs(t, cur)
                     popped == PopOverlap(cur, total, len, S, O)
                 IN IF popped.err
                    THEN [docs |-> emitted, err |-> TRUE]
                    ELSE MergeFrom(t, splits, i + 1, emitted,
                                   Append(popped.cur, d), popped.total + len, S, O)
            ELSE MergeFrom(t, splits, i + 1, docs, Append(cur, d), total + len, S, O)

MergeSplits(t, splits, S, O) == MergeFrom(t, splits, 1, <<>>, <<>>, 0, S, O)

\* _split_text: "if self._length_function(s) < self._chunk_size".
IsGoodSplit(s, S) == PieceLen(s) < S

\* _split_text: the first separator that is "" or occurs in the text.
PickSeparator(t, lo, hi, from) ==
    CHOOSE k \in from..Len(Separators) :
        /\ Separators[k] = <<>> \/ Found(t, lo, hi, Separators[k])
        /\ \A j \in from..(k - 1) :
              ~(Separators[j] = <<>> \/ Found(t, lo, hi, Separators[j]))

\* Two results in sequence: the second is not computed after an error.
Then(r1, r2) ==
    IF r1.err THEN r1 ELSE [docs |-> r1.docs \o r2.docs, err |-> r2.err]

NoDocs == [docs |-> <<>>, err |-> FALSE]

\* _split_text(text, separators) on the range [lo, hi], the separators being
\* Separators[from..]; WalkSplits is its loop over the splits, with
\* _good_splits and, in next, the first of new_separators (0: none left).
RECURSIVE SplitText(_, _, _, _, _, _)
RECURSIVE WalkSplits(_, _, _, _, _, _, _)
WalkSplits(t, splits, i, good, next, S, O) ==
    IF i > Len(splits)
    THEN IF good # <<>> THEN MergeSplits(t, good, S, O) ELSE NoDocs
    ELSE LET s == splits[i]
         IN IF IsGoodSplit(s, S)
            THEN WalkSplits(t, splits, i + 1, Append(good, s), next, S, O)
            ELSE Then(IF good # <<>> THEN MergeSplits(t, good, S, O) ELSE NoDocs,
                      Then(IF next = 0
                           THEN [docs |-> <<s>>, err |-> FALSE]
                           ELSE SplitText(t, s.lo, s.hi, next, S, O),
                           WalkSplits(t, splits, i + 1, <<>>, next, S, O)))

SplitText(t, lo, hi, from, S, O) ==
    LET k == PickSeparator(t, lo, hi, from)
        sep == Separators[k]
        next == IF sep = <<>> THEN 0 ELSE k + 1
    IN WalkSplits(t, SplitTextWithRegex(t, lo, hi, sep), 1, <<>>, next, S, O)

\* Variant of ConfigError: an overlap equal to the chunk size is refused too.
ConfigErrorStrict(S, O) == O >= S

\* TextSplitter.__init__: "if chunk_overlap > chunk_size: raise ValueError".
ConfigError(S, O) == O > S

\* The (chunk_size, chunk_overlap) pairs tried: a grid around the small
\* texts, and the notebook's own pair.
Configs ==
    ((-1)..MaxS) \X ((-1)..(MaxS + 1)) \cup {<<CHUNK_SIZE, CHUNK_OVERLAP>>}

\* The metadata of the documents split: a page of the PDF (PyPDFLoader gives
\* source and page) and a note (source only).
Metadatas ==
    { [source |-> "transcripts/PT693-Transcript.pdf", page |-> 42],
      [source |-> "Atomic Habits.md"] }

NoMetadata == [source |-> ""]

\* create_documents with add_start_index=True: every chunk's metadata also
\* gets the chunk's position in the document.
CreateDocumentsWithStartIndex(docs, md) ==
    [i \in 1..Len(docs) |-> [source |-> md.source, start_index |-> docs[i].lo - 1]]

\* split_documents -> create_documents: every chunk of a document gets a copy
\* of the document's metadata.
CreateDocuments(docs, md) == [i \in 1..Len(docs) |-> md]

(***************************************************************************)
(* ChatWithPodcast.ipynb, splitting cell.                                  *)
(***************************************************************************)
InitChunk ==
    /\ cpc = "start"
    /\ chunkSize = 0
    /\ chunkOverlap = 0
    /\ text = <<>>
    /\ chunks = <<>>
    /\ splitError = FALSE
    /\ docMetadata = NoMetadata
    /\ chunkMetadata = <<>>

\* r_splitter = RecursiveCharacterTextSplitter(chunk_size=S, chunk_overlap=O, length_function=len)
Construct ==
    /\ cpc = "start"
    /\ \E c \in Configs :
          /\ chunkSize' = c[1]
          /\ chunkOverlap' = c[2]
          /\ cpc' = IF ConfigError(c[1], c[2]) THEN "ctor_error" ELSE "ready"
    /\ UNCHANGED <<text, chunks, splitError, docMetadata, chunkMetadata>>
    /\ UNCHANGED <<ideaVars, ragVars, formVars, cosVars>>

\* One round of split_documents' loop over the documents: split_text(page_content)
\* of the next document.
SplitDocument ==
    /\ cpc = "ready"
    /\ \E t \in Texts, md \in Metadatas :
          LET r == SplitText(t, 1, Len(t), 1, chunkSize, chunkOverlap)
          IN /\ text' = t
             /\ docMetadata' = md
             /\ chunks' = r.docs
             /\ chunkMetadata' = CreateDocuments(r.docs, md)
             /\ splitError' = r.err
    /\ cpc' = "split"
    /\ UNCHANGED <<chunkSize, chunkOverlap>>
    /\ UNCHANGED <<ideaVars, ragVars, formVars, cosVars>>

\* split_documents' loop moves on to the next document: the chunks of the
\* document just split are appended to the output list, and nothing of them
\* is carried into the next round.
NextDocument ==
    /\ cpc = "split"
    /\ ~splitError
    /\ cpc' = "ready"
    /\ text' = <<>>
    /\ chunks' = <<>>
    /\ docMetadata' = NoMetadata
    /\ chunkMetadata' = <<>>
    /\ UNCHANGED <<chunkSize, chunkOverlap, splitError>>
    /\ UNCHANGED <<ideaVars, ragVars, formVars, cosVars>>

NextChunk == Construct \/ SplitDocument \/ NextDocument

(***************************************************************************)
(* ContentIdeaGenerator.ipynb.                                             *)
(* Python values: None and strings; a string is a sequence of tokens, so   *)
(* that slicing and the substring test "in" can be computed.               *)
(***************************************************************************)
None == [tag |-> "none"]

Str(s) == [tag |-> "str", val |-> s]

\* "needle in hay" for strings.
Contains(hay, needle) ==
    \E i \in 0..(Len(hay) - Len(needle)) :
        \A j \in 1..Len(needle) : hay[i + j] = needle[j]

\* The URLs tried, as urlparse splits them (netloc, path, query pairs):
\*   https://www.youtube.com/watch?v=Z6sCl6abJj4
\*   https://youtu.be/Z6sCl6abJj4?si=627FWCed9VtYTcbR   (the notebook's test call)
\*   https://www.youtube.com/                            (no v parameter)
\*   https://example.org/video
\*   youtu.be/Z6sCl6abJj4                                (no scheme: all of it is the path)
\*   https://notyoutube.com/watch?v=Z6sCl6abJj4
\*   https://youtube.com.example.org/watch?v=Z6sCl6abJj4
\*   https://notyoutu.be/Z6sCl6abJj4
\*   https://www.youtube.com/watch?v=&t=42               (a blank v)
\*   https://www.youtube.com/watch?t=42&v=Z6sCl6abJj4&v=dQw4w9WgXcQ
\*   https://youtu.be                                    (no path)
Urls ==
    { [netloc |-> <<"www", ".", "youtube", ".", "com">>, path |-> <<"/", "watch">>,
       query |-> <<[key |-> "v", value |-> <<"Z6sCl6abJj4">>]>>],
      [netloc |-> <<"youtu", ".", "be">>, path |-> <<"/", "Z6sCl6abJj4">>,
       query |-> <<[key |-> "si", value |-> <<"627FWCed9VtYTcbR">>]>>],
      [netloc |-> <<"www", ".", "youtube", ".", "com">>, path |-> <<"/">>,
       query |-> <<>>],
      [netloc |-> <<"example", ".", "org">>, path |-> <<"/", "video">>,
       query |-> <<>>],
      [netloc |-> <<>>, path |-> <<"youtu", ".", "be", "/", "Z6sCl6abJj4">>,
       query |-> <<>>],
      [netloc |-> <<"not", "youtube", ".", "com">>, path |-> <<"/", "watch">>,
       query |-> <<[key |-> "v", value |-> <<"Z6sCl6abJj4">>]>>],
      [netloc |-> <<"youtube", ".", "com", ".", "example", ".", "org">>,
       path |-> <<"/", "watch">>,
       query |-> <<[key |-> "v", value |-> <<"Z6sCl6abJj4">>]>>],
      [netloc |-> <<"not", "youtu", ".", "be">>, path |-> <<"/", "Z6sCl6abJj4">>,
       query |-> <<>>],
      [netloc |-> <<"www", ".", "youtube", ".", "com">>, path |-> <<"/", "watch">>,
       query |-> <<[key |-> "v", value |-> <<>>], [key |-> "t", value |-> <<"42">>]>>],
      [netloc |-> <<"www", ".", "youtube", ".", "com">>, path |-> <<"/", "watch">>,
       query |-> <<[key |-> "t", value |-> <<"42">>],
                   [key |-> "v", value |-> <<"Z6sCl6abJj4">>],
                   [key |-> "v", value |-> <<"dQw4w9WgXcQ">>]>>],
      [netloc |-> <<"youtu", ".", "be">>, path |-> <<>>, query |-> <<>>] }

\* parse_qs(query).get(key, [None])[0]: the first non-blank value of key, or None.
FirstQueryValue(query, key) ==
    LET hits == SelectSeq(query, LAMBDA kv : kv.key = key /\ kv.value # <<>>)
    IN IF hits = <<>> THEN None ELSE Str(hits[1].value)

\* extract_video_id_from_url with "video_id = parsed_url.path" for youtu.be.
ExtractVideoIdWholePath(url) ==
    IF Contains(url.netloc, <<"youtube", ".", "com">>)
    THEN FirstQueryValue(url.query, "v")
    ELSE IF Contains(url.netloc, <<"youtu", ".", "be">>)
         THEN Str(url.path)
         ELSE None

\* extract_video_id_from_url, on the parsed URL.
ExtractVideoIdFromUrl(url) ==
    IF Contains(url.netloc, <<"youtube", ".", "com">>)
    THEN FirstQueryValue(url.query, "v")
    ELSE IF Contains(url.netloc, <<"youtu", ".", "be">>)
         THEN Str(IF url.path = <<>> THEN <<>> ELSE Tail(url.path))
         ELSE None

\* What YoutubeLoader(vid_id, add_video_info=True).load() can do: raise, return
\* no document, or return one document, whose metadata holds the title or,
\* if the video info lacks it, does not.  Without a video id there is
\* nothing to load.
TranscriptDoc == [page_content |-> <<"transcript">>, metadata |-> [title |-> <<"title">>]]

UntitledDoc == [page_content |-> <<"transcript">>, metadata |-> [source |-> <<"id">>]]

LoaderOutcomes(vid) ==
    IF vid = None \/ vid = Str(<<>>)
    THEN { [kind |-> "raise", docs |-> <<>>], [kind |-> "docs", docs |-> <<>>] }
    ELSE { [kind |-> "raise", docs |-> <<>>], [kind |-> "docs", docs |-> <<>>],
           [kind |-> "docs", docs |-> <<TranscriptDoc>>],
           [kind |-> "docs", docs |-> <<UntitledDoc>>] }

\* The body of get_transcript_and_metadata's try block: a value, or an
\* exception (the loader's, or the KeyError of doc.metadata["title"]).
TryLoad(outcome) ==
    IF outcome.kind = "raise"
    THEN [raised |-> TRUE, value |-> <<>>]
    ELSE IF outcome.docs # <<>>
         THEN LET doc == outcome.docs[1]
              IN IF "title" \in DOMAIN doc.metadata
                 THEN [raised |-> FALSE,
                       value |-> <<Str(doc.page_content), Str(doc.metadata.title)>>]
                 ELSE [raised |-> TRUE, value |-> <<>>]
         ELSE [raised |-> FALSE, value |-> <<None, None>>]

\* Variant of GetTranscriptAndMetadata: no except clause.
GetTranscriptUnguarded(outcome) == TryLoad(outcome)

\* get_transcript_and_metadata: "except Exception" returns (None, None).
GetTranscriptAndMetadata(outcome) ==
    LET r == TryLoad(outcome)
    IN IF r.raised THEN [raised |-> FALSE, value |-> <<None, None>>] ELSE r

\* Python's truth value of a tuple: it is false only when the tuple is empty.
Truthy(tuple) == Len(tuple) # 0

FailurePair ==
    <<"Failed to load transcript.", "Cannot generate content ideas without transcript.">>

Persons == {"ABOUT_ME", "other creator"}

Audiences == {"TARGET_AUDIENCE", "other audience"}

\* What a language-model call can answer.
Summaries == {"summary A", "summary B"}

Ideas == {"ideas A", "ideas B"}

NoRequest == [url |-> <<>>, info_about_me |-> "", info_about_audience |-> ""]

NoInputs == [transcript |-> <<>>, info_about_me |-> "", info_about_audience |-> ""]

\* summary_chain: its prompt's input variables and its output key.
summary_chain ==
    [name |-> "summary_chain",
     input_variables |-> {"transcript", "info_about_me"},
     output_key |-> "summary"]

\* idea_chain: its prompt's input variables and its output key.
idea_chain ==
    [name |-> "idea_chain",
     input_variables |-> {"summary", "info_about_me", "info_about_audience"},
     output_key |-> "content_ideas"]

\* A sequential chain that runs idea_chain before summary_chain.
OverallChainIdeaFirst ==
    [chains |-> <<idea_chain, summary_chain>>,
     input_variables |-> {"transcript", "info_about_me", "info_about_audience"},
     output_variables |-> <<"summary", "content_ideas">>]

\* overall_chain = SequentialChain(chains=[summary_chain, idea_chain], ...)
overall_chain ==
    [chains |-> <<summary_chain, idea_chain>>,
     input_variables |-> {"transcript", "info_about_me", "info_about_audience"},
     output_variables |-> <<"summary", "content_ideas">>]

\* A chain's known values before overall_chain is called.
NoValues == [v \in {} |-> ""]

\* The values of the variables names, out of the known values.
Select(values, names) == [v \in names |-> values[v]]

InitIdea ==
    /\ ipc = "idle"
    /\ request = NoRequest
    /\ vidId = None
    /\ loaded = [kind |-> "none", docs |-> <<>>]
    /\ transcript = <<>>
    /\ inputs = NoInputs
    /\ llmCalls = 0
    /\ summary = ""
    /\ output = <<>>
    /\ known = NoValues
    /\ prompts = <<>>
    /\ missing = {}

\* The web form calls execute_chain(url, info_about_me, info_about_audience).
Submit ==
    /\ ipc = "idle"
    /\ \E u \in Urls, me \in Persons, aud \in Audiences :
          request' = [url |-> u, info_about_me |-> me, info_about_audience |-> aud]
    /\ ipc' = "loading"
    /\ UNCHANGED <<vidId, loaded, transcript, inputs, llmCalls, summary, output>>
    /\ UNCHANGED <<known, prompts, missing>>
    /\ UNCHANGED <<chunkVars, ragVars, formVars, cosVars>>

\* transcript = get_transcript_and_metadata(url)
GetTranscript ==
    /\ ipc = "loading"
    /\ vidId' = ExtractVideoIdFromUrl(request.url)
    /\ \E o \in LoaderOutcomes(vidId') :
          LET r == GetTranscriptAndMetadata(o)
          IN /\ loaded' = o
             /\ transcript' = r.value
             /\ ipc' = IF r.raised THEN "load_raised" ELSE "loaded"
    /\ UNCHANGED <<request, inputs, llmCalls, summary, output>>
    /\ UNCHANGED <<known, prompts, missing>>
    /\ UNCHANGED <<chunkVars, ragVars, formVars, cosVars>>

\* "if transcript:": build the inputs and call overall_chain, or return the
\* failure messages.
Branch ==
    /\ ipc = "loaded"
    /\ IF Truthy(transcript)
       THEN /\ inputs' = [transcript |-> transcript,
                          info_about_me |-> request.info_about_me,
                          info_about_audience |-> request.info_about_audience]
            /\ known' = inputs'
            /\ ipc' = "summary"
            /\ output' = output
       ELSE /\ output' = FailurePair
            /\ ipc' = "returned"
            /\ inputs' = inputs
            /\ known' = known
    /\ UNCHANGED <<request, vidId, loaded, transcript, llmCalls, summary>>
    /\ UNCHANGED <<prompts, missing>>
    /\ UNCHANGED <<chunkVars, ragVars, formVars, cosVars>>

\* overall_chain, first chain.  A chain whose input variables are not all
\* known raises; otherwise its prompt is filled with their values and its
\* language model is called, which answers or raises.  The answer becomes a
\* known value under the chain's output key.
RunSummaryChain ==
    /\ ipc = "summary"
    /\ LET c == overall_chain.chains[1]
       IN IF c.input_variables \subseteq DOMAIN known
          THEN /\ llmCalls' = llmCalls + 1
               /\ prompts' = Append(prompts, [chain |-> c.name,
                                              values |-> Select(known, c.input_variables)])
               /\ missing' = missing
               /\ \/ \E s \in Summaries :
                        /\ summary' = s
                        /\ known' = known @@ (c.output_key :> s)
                        /\ ipc' = "idea"
                  \/ summary' = summary /\ known' = known /\ ipc' = "chain_raised"
          ELSE /\ missing' = c.input_variables \ DOMAIN known
               /\ ipc' = "chain_raised"
               /\ UNCHANGED <<llmCalls, prompts, summary, known>>
    /\ UNCHANGED <<request, vidId, loaded, transcript, inputs, output>>
    /\ UNCHANGED <<chunkVars, ragVars, formVars, cosVars>>

\* overall_chain, second chain, run in the same way; then overall_chain
\* returns its output variables and execute_chain executes
\* "return output['summary'], output['content_ideas']".
RunIdeaChain ==
    /\ ipc = "idea"
    /\ LET c == overall_chain.chains[2]
       IN IF c.input_variables \subseteq DOMAIN known
          THEN /\ llmCalls' = llmCalls + 1
               /\ prompts' = Append(prompts, [chain |-> c.name,
                                              values |-> Select(known, c.input_variables)])
               /\ missing' = missing
               /\ \/ \E i \in Ideas :
                        /\ known' = known @@ (c.output_key :> i)
                        /\ output' = [n \in 1..Len(overall_chain.output_variables)
                                         |-> known'[overall_chain.output_variables[n]]]
                        /\ ipc' = "returned"
                  \/ output' = output /\ known' = known /\ ipc' = "chain_raised"
          ELSE /\ missing' = c.input_variables \ DOMAIN known
               /\ ipc' = "chain_raised"
               /\ UNCHANGED <<llmCalls, prompts, output, known>>
    /\ UNCHANGED <<request, vidId, loaded, transcript, inputs, summary>>
    /\ UNCHANGED <<chunkVars, ragVars, formVars, cosVars>>

\* The call is over (returned or raised); the form waits for the next one.
Finish ==
    /\ ipc \in {"returned", "chain_raised", "load_raised"}
    /\ ipc' = "idle"
    /\ request' = NoRequest
    /\ vidId' = None
    /\ loaded' = [kind |-> "none", docs |-> <<>>]
    /\ transcript' = <<>>
    /\ inputs' = NoInputs
    /\ llmCalls' = 0
    /\ summary' = ""
    /\ output' = <<>>
    /\ known' = NoValues
    /\ prompts' = <<>>
    /\ missing' = {}
    /\ UNCHANGED <<chunkVars, ragVars, formVars, cosVars>>

NextIdea ==
    Submit \/ GetTranscript \/ Branch \/ RunSummaryChain \/ RunIdeaChain \/ Finish

(***************************************************************************)
(* ContentIdeaGenerator.ipynb: demo.launch.  The launched form calls        *)
(* execute_chain once for every submission.  Nothing in the notebook makes *)
(* a submission wait for the call of an earlier one, so the calls of       *)
(* several submissions can be in progress at once; each call has its own   *)
(* arguments and local variables.                                          *)
(***************************************************************************)
\* The submissions that can be in progress at once.
MaxCalls == 2

Callers == 1..MaxCalls

\* The URLs submitted: the notebook's test call and https://example.org/video.
FormUrls ==
    {u \in Urls : \/ u.netloc = <<"youtu", ".", "be">> /\ u.path # <<>>
                  \/ u.netloc = <<"example", ".", "org">>}

NoCall == [pc |-> "idle", url |-> <<>>, loaded |-> [kind |-> "none", docs |-> <<>>],
           transcript |-> <<>>, output |-> <<>>]

InitForm == calls = [c \in Callers |-> NoCall]

\* "transcript = ..." were transcript a variable of the module: every call
\* in progress sees the assignment.
SetTranscriptGlobal(cs, c, value) ==
    [d \in DOMAIN cs |-> IF d = c \/ cs[d].pc # "idle"
                         THEN [cs[d] EXCEPT !.transcript = value]
                         ELSE cs[d]]

\* "transcript = ...": the assignment to the local variable of call c.
SetTranscript(cs, c, value) == [cs EXCEPT ![c].transcript = value]

\* A submission of the form: execute_chain(url, ...) is called.
FormSubmit(c) ==
    /\ calls[c].pc = "idle"
    /\ \E u \in FormUrls :
          calls' = [calls EXCEPT ![c].pc = "loading", ![c].url = u]
    /\ UNCHANGED <<chunkVars, ideaVars, ragVars, cosVars>>

\* transcript = get_transcript_and_metadata(url), in call c.
FormGetTranscript(c) ==
    /\ calls[c].pc = "loading"
    /\ \E o \in LoaderOutcomes(ExtractVideoIdFromUrl(calls[c].url)) :
          calls' = SetTranscript([calls EXCEPT ![c].pc = "loaded", ![c].loaded = o],
                                 c, GetTranscriptAndMetadata(o).value)
    /\ UNCHANGED <<chunkVars, ideaVars, ragVars, cosVars>>

\* "if transcript:" in call c.
FormBranch(c) ==
    /\ calls[c].pc = "loaded"
    /\ calls' = IF Truthy(calls[c].transcript)
                THEN [calls EXCEPT ![c].pc = "chain"]
                ELSE [calls EXCEPT ![c].pc = "returned", ![c].output = FailurePair]
    /\ UNCHANGED <<chunkVars, ideaVars, ragVars, cosVars>>

\* output = overall_chain(inputs) and the return, in call c: the chain
\* answers or raises.
FormRunChain(c) ==
    /\ calls[c].pc = "chain"
    /\ \/ calls' = [calls EXCEPT ![c].pc = "returned",
                                 ![c].output = <<"summary A", "ideas A">>]
       \/ calls' = [calls EXCEPT ![c].pc = "raised"]
    /\ UNCHANGED <<chunkVars, ideaVars, ragVars, cosVars>>

\* Call c is over; its variables are gone.
FormFinish(c) ==
    /\ calls[c].pc \in {"returned", "raised"}
    /\ calls' = [calls EXCEPT ![c] = NoCall]
    /\ UNCHANGED <<chunkVars, ideaVars, ragVars, cosVars>>

NextForm ==
    \E c \in Callers :
       \/ FormSubmit(c) \/ FormGetTranscript(c) \/ FormBranch(c)
       \/ FormRunChain(c) \/ FormFinish(c)

(***************************************************************************)
(* ChatWithObsidian.ipynb and ChatWithPodcast.ipynb: the vector index and  *)
(* the two question-answering chains.                                      *)
(* Embeddings are vectors of the same length (OpenAI's embeddings are      *)
(* normalised), here integer points of the circle of radius 5.             *)
(***************************************************************************)
\* The retriever's number of results: as_retriever() is called without search_kwargs.
DefaultK == 4

\* The largest k given to similarity_search.
MaxK == 5

\* embedding = OpenAIEmbeddings(): the one embedding object of the notebook.
embedding == [model |-> "text-embedding-ada-002", dim |-> 2]

\* An embedding function of another model, with vectors of another length.
OtherEmbedding == [model |-> "all-MiniLM-L6-v2", dim |-> 3]

NoEmbedding == [model |-> "", dim |-> 0]

\* The chunks of the notes that can be ingested, in the order the loader and
\* the splitter give them, each with its topic and with the vector that
\* OpenAI's model gives its text.  Every note starts with the same heading,
\* so three chunks have the same text and the same vector.
Splits ==
    << [chunk |-> "## Highlights", source |-> "Atomic Habits.md",
        topic |-> "headings", vec |-> <<-3, -4>>],
       [chunk |-> "four laws of behavior change", source |-> "Atomic Habits.md",
        topic |-> "behavior change", vec |-> <<5, 0>>],
       [chunk |-> "habit stacking", source |-> "Atomic Habits.md",
        topic |-> "behavior change", vec |-> <<4, 3>>],
       [chunk |-> "## Highlights", source |-> "Keep Sharp.md",
        topic |-> "headings", vec |-> <<-3, -4>>],
       [chunk |-> "five pillars of a healthy brain", source |-> "Keep Sharp.md",
        topic |-> "healthy brain", vec |-> <<0, 5>>],
       [chunk |-> "sleep", source |-> "Keep Sharp.md",
        topic |-> "healthy brain", vec |-> <<3, 4>>],
       [chunk |-> "## Highlights", source |-> "The Almanack Of Naval Ravikant.md",
        topic |-> "headings", vec |-> <<-3, -4>>],
       [chunk |-> "specific knowledge", source |-> "The Almanack Of Naval Ravikant.md",
        topic |-> "wealth", vec |-> <<-5, 0>>],
       [chunk |-> "leverage", source |-> "The Almanack Of Naval Ravikant.md",
        topic |-> "wealth", vec |-> <<-4, -3>>] >>

Corpus == {Splits[i] : i \in DOMAIN Splits}

NoteSources == {e.source : e \in Corpus}

\* The questions asked, with their topic and the vector OpenAI's model gives them.
Questions ==
    { [text |-> "What are the laws of behavior change?",
       topic |-> "behavior change", vec |-> <<4, -3>>],
      [text |-> "What are the pillars of a healthy brain?",
       topic |-> "healthy brain", vec |-> <<-3, 4>>],
      [text |-> "What are 10 brain foods?",
       topic |-> "brain foods", vec |-> <<0, -5>>],
      [text |-> "What does Naval Ravikant say about raising kids?",
       topic |-> "raising kids", vec |-> <<3, -4>>],
      [text |-> "Which of the habits in the following article are in my notes? (the article, pasted)",
       topic |-> "behavior change", vec |-> <<4, -3>>] }

NoQuestion == [text |-> "", topic |-> "", vec |-> <<0, 0>>]

\* What the language model can write after "SOURCES:": any of the notes'
\* names, and an address of the web that no note has
\* (ChatWithObsidian.ipynb, output of the brain foods query).
WebSource == "https://www.healthline.com/nutrition/10-brain-foods#section2"

CitableSources == NoteSources \cup {WebSource}

\* The vector an embedding function gives a text: the vector of its own
\* model, of its own length.
Embed(emb, item) ==
    [model |-> emb.model,
     vec   |-> IF emb.dim = 2 THEN item.vec ELSE item.vec \o <<0>>]

NoVector == [model |-> "", vec |-> <<0, 0>>]

\* from_documents(documents, embedding): the store's entries for the
\* documents, numbered in their order, each with its embedding.
RECURSIVE EntriesFrom(_, _, _)
EntriesFrom(docs, emb, i) ==
    IF i > Len(docs) THEN {}
    ELSE {[id |-> i, chunk |-> docs[i].chunk, source |-> docs[i].source,
           topic |-> docs[i].topic, model |-> Embed(emb, docs[i]).model,
           vec |-> Embed(emb, docs[i]).vec]}
         \cup EntriesFrom(docs, emb, i + 1)

\* What the persist directory keeps of an entry: its id, its embedding, its
\* document and its metadata.
ToRowWithoutMetadata(e) ==
    [id |-> e.id,
     embedding |-> [model |-> e.model, vec |-> e.vec],
     document |-> [text |-> e.chunk, topic |-> e.topic],
     metadata |-> [source |-> ""]]

ToRow(e) ==
    [id |-> e.id,
     embedding |-> [model |-> e.model, vec |-> e.vec],
     document |-> [text |-> e.chunk, topic |-> e.topic],
     metadata |-> [source |-> e.source]]

\* The entry a row of the persist directory is read back as.
FromRow(r) ==
    [id |-> r.id, chunk |-> r.document.text, source |-> r.metadata.source,
     topic |-> r.document.topic, model |-> r.embedding.model,
     vec |-> r.embedding.vec]

WriteStore(E) == {ToRow(e) : e \in E}

ReadStore(rows) == {FromRow(r) : r \in rows}

\* A distance that looks at the first component only.
DistanceOfFirstComponent(u, v) == (u[1] - v[1]) * (u[1] - v[1])

\* Chroma's default distance: the squared L2 distance.
Distance(u, v) ==
    (u[1] - v[1]) * (u[1] - v[1]) + (u[2] - v[2]) * (u[2] - v[2])

\* The entries of E farthest from v.
Farthest(E, v) ==
    {e \in E : \A f \in E : Distance(e.vec, v) >= Distance(f.vec, v)}

\* The entries of E nearest to v.
Nearest(E, v) ==
    {e \in E : \A f \in E : Distance(e.vec, v) <= Distance(f.vec, v)}

\* The orders in which a store can hold entries that are equally near.
TieBreaks == {"lowest id first", "highest id first"}

OtherTieBreak(tb) == CHOOSE t \in TieBreaks : t # tb

\* Of entries equally near, the one the store gives first.
FirstOf(N, tb) ==
    CHOOSE e \in N : \A f \in N : IF tb = "lowest id first" THEN e.id <= f.id
                                                              ELSE e.id >= f.id

\* The next result taken from the far end.
NextResultFarthest(E, tb, v) == FirstOf(Farthest(E, v), tb)

\* The next result of a search: the nearest entry left, the store's first of
\* several equally near.
NextResult(E, tb, v) == FirstOf(Nearest(E, v), tb)

\* The k nearest entries of E, nearest first, as many as there are.
RECURSIVE Ranked(_, _, _, _)
Ranked(E, tb, v, k) ==
    IF k = 0 \/ E = {} THEN <<>>
    ELSE LET e == NextResult(E, tb, v)
         IN <<e>> \o Ranked(E \ {e}, tb, v, k - 1)

Min(a, b) == IF a < b THEN a ELSE b

\* A search that returns every entry, whatever k is.
SimilaritySearchAll(E, tb, v, k) == Ranked(E, tb, v, Cardinality(E))

\* A search whose order of equally near entries depends on k.
SimilaritySearchAnyTie(E, tb, v, k) ==
    Ranked(E, IF k % 2 = 0 THEN OtherTieBreak(tb) ELSE tb, v, Min(k, Cardinality(E)))

\* similarity_search(v, k): the k nearest entries, nearest first, k capped at
\* the number of entries; entries at the same distance come in the store's order.
SimilaritySearch(E, tb, v, k) == Ranked(E, tb, v, Min(k, Cardinality(E)))

SourcesOf(docs) == {docs[i].source : i \in 1..Len(docs)}

\* len() of the texts: the chunks, none longer than CHUNK_SIZE, and the questions.
Chars ==
    [t \in {e.chunk : e \in Corpus} \cup {q.text : q \in Questions} |->
        CASE t = "## Highlights" -> 13
          [] t = "four laws of behavior change" -> 1200
          [] t = "habit stacking" -> 1148
          [] t = "five pillars of a healthy brain" -> 1200
          [] t = "sleep" -> 1193
          [] t = "specific knowledge" -> 1200
          [] t = "leverage" -> 103
          [] t = "Which of the habits in the following article are in my notes? (the article, pasted)" -> 20000
          [] OTHER -> 40]

\* The number of tokens the language model's tokenizer makes of the texts.
Tokens ==
    [t \in DOMAIN Chars |-> IF Chars[t] <= 40 THEN 10 ELSE Chars[t] \div 4]

\* The context length of the language model, in tokens.
ContextLength == 4096

\* The sum of the sizes of the texts.
RECURSIVE SumOf(_, _)
SumOf(size, texts) ==
    IF texts = <<>> THEN 0 ELSE size[Head(texts)] + SumOf(size, Tail(texts))

\* The instruction of the podcast notebook's template.
DontKnowInstruction ==
    "If you don't know the answer based on [Context] just say that you don't know, don't try to make up an answer."

\* A template that only asks.
TemplateWithoutInstruction ==
    << "[Context]:", "{context}", "[Question]:", "{question}", "Helpful Answer:" >>

\* template / QA_CHAIN_PROMPT, line by line.
template ==
    << "I will provide you pieces of [Context] to answer the [Question].",
       DontKnowInstruction,
       "[Context]:", "{context}",
       "[Question]:", "{question}",
       "Helpful Answer:" >>

\* The prompt of the chain that query_with_sources builds (the library's own).
SourcesTemplate ==
    << "Given the following extracted parts of a long document and a question, create a final answer with references (\"SOURCES\").",
       "If you don't know the answer, just say that you don't know. Don't try to make up an answer.",
       "ALWAYS return a \"SOURCES\" part in your answer.",
       "QUESTION:", "{question}",
       "{context}",
       "FINAL ANSWER:" >>

\* The template of a chain.
PromptOf(c) == IF c = "retrieval_qa" THEN template ELSE SourcesTemplate

\* The "stuff" chain's context: the text of every retrieved document, in order.
Stuff(docs) == [i \in 1..Len(docs) |-> docs[i].chunk]

\* PromptTemplate.format: the template with its variables filled in.
RECURSIVE Format(_, _, _)
Format(t, context, q) ==
    IF t = <<>> THEN <<>>
    ELSE (IF Head(t) = "{context}" THEN context
          ELSE IF Head(t) = "{question}" THEN <<q>>
          ELSE <<Head(t)>>)
         \o Format(Tail(t), context, q)

NoCompletion == [answer |-> "", cited |-> {}]

InitRag ==
    /\ rpc = "empty"
    /\ index = {}
    /\ disk = {}
    /\ built = {}
    /\ reopened = FALSE
    /\ tieBreak = "lowest id first"
    /\ embeddingFunction = NoEmbedding
    /\ question = NoQuestion
    /\ chain = ""
    /\ kArg = 0
    /\ queryVector = NoVector
    /\ retrieved = <<>>
    /\ prompt = <<>>
    /\ completion = NoCompletion
    /\ answer = ""
    /\ sources = {}
    /\ stages = <<>>

queryVars == <<question, chain, kArg, queryVector, retrieved, prompt, completion,
               answer, sources, stages>>

storeVars == <<index, disk, built, reopened, tieBreak, embeddingFunction>>

\* VectorstoreIndexCreator(...).from_documents(docs) / Chroma.from_documents(splits,
\* embedding, persist_directory): the chunks of the loaded documents are
\* embedded, stored and written to the persist directory.
Ingest ==
    /\ rpc = "empty"
    /\ \E notes \in SUBSET NoteSources, tb \in TieBreaks :
          /\ notes # {}
          /\ LET docs == SelectSeq(Splits, LAMBDA d : d.source \in notes)
                 entries == EntriesFrom(docs, embedding, 1)
             IN /\ index' = entries
                /\ built' = entries
                /\ disk' = WriteStore(entries)
          /\ tieBreak' = tb
    /\ embeddingFunction' = embedding
    /\ rpc' = "ready"
    /\ UNCHANGED <<reopened>>
    /\ UNCHANGED queryVars
    /\ UNCHANGED <<chunkVars, ideaVars, formVars, cosVars>>

\* The times the ingest cell is run on one persist directory.
MaxRuns == 2

\* Entries added to a store that holds n entries: their ids come after the
\* ids the store has given out.
AddedAfter(E, n) == {[e EXCEPT !.id = e.id + n] : e \in E}

\* The ingest cell is run again, with the same documents and the same persist
\* directory: from_documents opens the store that the directory holds and
\* adds the chunks to it under new ids.
IngestAgain ==
    /\ rpc = "ready"
    /\ LET notes == {e.source : e \in index}
           docs == SelectSeq(Splits, LAMBDA d : d.source \in notes)
           entries == ReadStore(disk)
                         \cup AddedAfter(EntriesFrom(docs, embedding, 1), Cardinality(disk))
       IN /\ Cardinality(disk) < MaxRuns * Len(docs)
          /\ index' = entries
          /\ built' = entries
          /\ disk' = WriteStore(entries)
    /\ embeddingFunction' = embedding
    /\ reopened' = FALSE
    /\ UNCHANGED <<tieBreak, rpc>>
    /\ UNCHANGED queryVars
    /\ UNCHANGED <<chunkVars, ideaVars, formVars, cosVars>>

\* The embedding function given to the re-opened store.
ReopenEmbedding == embedding

\* vectordb = Chroma(persist_directory=persist_directory, embedding_function=embedding):
\* vectordb is bound to a store read from the persist directory.
Reopen ==
    /\ rpc = "ready"
    /\ index' = ReadStore(disk)
    /\ embeddingFunction' = ReopenEmbedding
    /\ reopened' = TRUE
    /\ UNCHANGED <<disk, built, tieBreak>>
    /\ UNCHANGED <<rpc>>
    /\ UNCHANGED queryVars
    /\ UNCHANGED <<chunkVars, ideaVars, formVars, cosVars>>

\* index.query_with_sources(query), qa_chain({"query": question}) or
\* vectordb.similarity_search(question, k) is called.
Ask ==
    /\ rpc = "ready"
    /\ \E q \in Questions :
          /\ question' = q
          /\ \/ \E c \in {"query_with_sources", "retrieval_qa"} :
                   chain' = c /\ kArg' = DefaultK
             \/ \E n \in 1..MaxK :
                   chain' = "similarity_search" /\ kArg' = n
    /\ rpc' = "asked"
    /\ UNCHANGED <<queryVector, retrieved, prompt, completion, answer, sources, stages>>
    /\ UNCHANGED storeVars
    /\ UNCHANGED <<chunkVars, ideaVars, formVars, cosVars>>

\* The store's embedding function embeds the question.
EmbedQuery ==
    /\ rpc = "asked"
    /\ queryVector' = Embed(embeddingFunction, question)
    /\ stages' = Append(stages, "embed")
    /\ rpc' = "embedded"
    /\ UNCHANGED <<question, chain, kArg, retrieved, prompt, completion, answer, sources>>
    /\ UNCHANGED storeVars
    /\ UNCHANGED <<chunkVars, ideaVars, formVars, cosVars>>

\* The store returns the entries nearest to the question's vector.
Retrieve ==
    /\ rpc = "embedded"
    /\ retrieved' = SimilaritySearch(index, tieBreak, queryVector.vec, kArg)
    /\ stages' = Append(stages, "retrieve")
    /\ rpc' = "retrieved"
    /\ UNCHANGED <<question, chain, kArg, queryVector, prompt, completion, answer, sources>>
    /\ UNCHANGED storeVars
    /\ UNCHANGED <<chunkVars, ideaVars, formVars, cosVars>>

\* The chain fills its template with the retrieved documents and the question.
RenderPrompt ==
    /\ rpc = "retrieved"
    /\ chain # "similarity_search"
    /\ prompt' = Format(PromptOf(chain), Stuff(retrieved), question.text)
    /\ stages' = Append(stages, "prompt")
    /\ rpc' = "prompted"
    /\ UNCHANGED <<question, chain, kArg, queryVector, retrieved, completion, answer, sources>>
    /\ UNCHANGED storeVars
    /\ UNCHANGED <<chunkVars, ideaVars, formVars, cosVars>>

\* The language-model call made as soon as the question is embedded.
CallModelBeforeRetrieval ==
    /\ rpc \in {"embedded", "prompted"}
    /\ chain # "similarity_search"
    /\ \E a \in {"an answer", "I don't know"}, cited \in SUBSET CitableSources :
          completion' = [answer |-> a, cited |-> cited]
    /\ stages' = Append(stages, "llm")
    /\ rpc' = "generated"
    /\ UNCHANGED <<question, chain, kArg, queryVector, retrieved, prompt, answer, sources>>
    /\ UNCHANGED storeVars
    /\ UNCHANGED <<chunkVars, ideaVars, formVars, cosVars>>

\* The chain's language-model call.  The model answers or says it does not
\* know, and in the chain of query_with_sources it writes the sources it
\* cites after "SOURCES:".
CallModel ==
    /\ rpc = "prompted"
    /\ \E a \in {"an answer", "I don't know"} :
          \E cited \in (IF chain = "retrieval_qa" THEN {{}} ELSE SUBSET CitableSources) :
             completion' = [answer |-> a, cited |-> cited]
    /\ stages' = Append(stages, "llm")
    /\ rpc' = "generated"
    /\ UNCHANGED <<question, chain, kArg, queryVector, retrieved, prompt, answer, sources>>
    /\ UNCHANGED storeVars
    /\ UNCHANGED <<chunkVars, ideaVars, formVars, cosVars>>

\* A result that is also added to the store, as a document to retrieve later.
ReturnAndRemember ==
    /\ rpc \in {"generated"}
    /\ answer' = completion.answer
    /\ sources' = completion.cited
    /\ index' = index \cup {[id |-> Cardinality(index) + 1, chunk |-> completion.answer,
                             source |-> "answer", topic |-> question.topic,
                             model |-> queryVector.model, vec |-> queryVector.vec]}
    /\ disk' = WriteStore(index')
    /\ stages' = Append(stages, "return")
    /\ rpc' = "answered"
    /\ UNCHANGED <<question, chain, kArg, queryVector, retrieved, prompt, completion>>
    /\ UNCHANGED <<built, reopened, tieBreak, embeddingFunction>>
    /\ UNCHANGED <<chunkVars, ideaVars, formVars, cosVars>>

\* The result of the call.  similarity_search returns the documents;
\* RetrievalQA(return_source_documents=True) returns the retrieved documents
\* with the answer; query_with_sources returns as 'sources' what the model
\* wrote after "SOURCES:".
ReturnResult ==
    /\ \/ rpc = "generated"
       \/ rpc = "retrieved" /\ chain = "similarity_search"
    /\ answer' = completion.answer
    /\ sources' = IF chain = "query_with_sources" THEN completion.cited
                                                  ELSE SourcesOf(retrieved)
    /\ stages' = Append(stages, "return")
    /\ rpc' = "answered"
    /\ UNCHANGED <<question, chain, kArg, queryVector, retrieved, prompt, completion>>
    /\ UNCHANGED storeVars
    /\ UNCHANGED <<chunkVars, ideaVars, formVars, cosVars>>

\* The next notebook cell asks the next question.
NextQuestion ==
    /\ rpc = "answered"
    /\ rpc' = "ready"
    /\ question' = NoQuestion
    /\ chain' = ""
    /\ kArg' = 0
    /\ queryVector' = NoVector
    /\ retrieved' = <<>>
    /\ prompt' = <<>>
    /\ completion' = NoCompletion
    /\ answer' = ""
    /\ sources' = {}
    /\ stages' = <<>>
    /\ UNCHANGED storeVars
    /\ UNCHANGED <<chunkVars, ideaVars, formVars, cosVars>>

NextRag ==
    \/ Ingest \/ IngestAgain \/ Reopen \/ Ask \/ EmbedQuery \/ Retrieve
    \/ RenderPrompt \/ CallModel \/ ReturnResult \/ NextQuestion

(***************************************************************************)
(* ChatWithPodcast.ipynb: cosine_similarity.                               *)
(* numpy computes in binary floating point: every operation gives the      *)
(* exact result rounded to the nearest number of the format, ties to the   *)
(* even mantissa.  The format here has MantissaBits bits of mantissa (a    *)
(* float64 has 53) and exponents e >= -MinExponent (a float64: -1074).  A  *)
(* number is m * 2^e with 2^(MantissaBits-1) <= |m| < 2^MantissaBits, or,  *)
(* at the smallest exponent, with a smaller |m| (a subnormal number), or   *)
(* zero: a result below half the smallest subnormal number underflows to   *)
(* zero.  The vectors tried have no large components, so the upper end of  *)
(* the exponent range is never reached.                                    *)
(***************************************************************************)
MantissaBits == 8

MinExponent == 24

\* The scales of the vectors tried: a vector's components are integers
\* times 2^-scale.  With SmallScale the squares of the components are
\* subnormal numbers, with TinyScale they underflow to zero.
SmallScale == 12

TinyScale == 16

\* The largest absolute value of a vector's components.
MaxComp == 3

Pow2(n) == 2 ^ n

Zero == [kind |-> "num", m |-> 0, e |-> 0]

\* 0.0 / 0.0
NaN == [kind |-> "nan", m |-> 0, e |-> 0]

\* x / 0.0 for x > 0 and for x < 0
Infinity(sign) == [kind |-> "inf", m |-> sign, e |-> 0]

Abs(n) == IF n < 0 THEN 0 - n ELSE n

SignOf(n) == IF n < 0 THEN 0 - 1 ELSE 1

\* n * 2^e with n doubled until it has two bits more than a mantissa.
RECURSIVE ScaleUp(_, _)
ScaleUp(n, e) ==
    IF n >= Pow2(MantissaBits + 1) THEN <<n, e>> ELSE ScaleUp(2 * n, e - 1)

\* n * 2^e with n halved until it has two bits more than a mantissa;
\* and further until the exponent is in the range of the format; sticky tells
\* that a one was shifted out (or that n was inexact already).
RECURSIVE ScaleDown(_, _, _)
ScaleDown(n, e, sticky) ==
    IF n < Pow2(MantissaBits + 2) /\ e + 2 >= 0 - MinExponent THEN <<n, e, sticky>>
    ELSE ScaleDown(n \div 2, e + 1, sticky \/ n % 2 = 1)

\* The number of the format nearest to sign * n * 2^e (n >= 0), ties to even.
RoundToFloat(sign, n, e, sticky) ==
    IF n = 0 THEN Zero
    ELSE LET u == ScaleUp(n, e)
             d == ScaleDown(u[1], u[2], sticky)
             q == d[1] \div 4
             r == d[1] % 4
             up == r = 3 \/ (r = 2 /\ (d[3] \/ q % 2 = 1))
             q1 == IF up THEN q + 1 ELSE q
         IN IF q1 = 0 THEN Zero
            ELSE IF q1 = Pow2(MantissaBits)
            THEN [kind |-> "num", m |-> sign * Pow2(MantissaBits - 1), e |-> d[2] + 3]
            ELSE [kind |-> "num", m |-> sign * q1, e |-> d[2] + 2]

\* The same number with a full mantissa (a subnormal number has a short one).
RECURSIVE Normal(_)
Normal(a) ==
    IF a.m = 0 \/ Abs(a.m) >= Pow2(MantissaBits - 1) THEN a
    ELSE Normal([a EXCEPT !.m = 2 * a.m, !.e = a.e - 1])

\* a + b: exact when the exponents are close; a number more than a mantissa
\* below the other is less than a quarter of its last place and is lost.
Add(a, b) ==
    IF a.m = 0 THEN b
    ELSE IF b.m = 0 THEN a
    ELSE LET hi == IF a.e >= b.e THEN a ELSE b
             lo == IF a.e >= b.e THEN b ELSE a
             d == hi.e - lo.e
             n == hi.m * Pow2(d) + lo.m
         IN IF d >= MantissaBits + 2 THEN hi
            ELSE RoundToFloat(SignOf(n), Abs(n), lo.e, FALSE)

\* The float of an integer.
FromInt(n) == RoundToFloat(SignOf(n), Abs(n), 0, FALSE)

\* a * b
Mul(a, b) == RoundToFloat(SignOf(a.m) * SignOf(b.m), Abs(a.m) * Abs(b.m), a.e + b.e, FALSE)

\* a / b: 0/0 is nan, x/0 is infinite.
Div(a, b) ==
    IF b.m = 0
    THEN IF a.m = 0 THEN NaN ELSE Infinity(SignOf(a.m))
    ELSE LET s == 2 * MantissaBits + 2
             x == Normal(a)
             y == Normal(b)
             n == Abs(x.m) * Pow2(s)
         IN RoundToFloat(SignOf(x.m) * SignOf(y.m), n \div Abs(y.m),
                         x.e - y.e - s, n % Abs(y.m) # 0)

\* The largest r in lo..hi with r * r <= x.
RECURSIVE ISqrt(_, _, _)
ISqrt(x, lo, hi) ==
    IF lo = hi THEN lo
    ELSE LET mid == (lo + hi + 1) \div 2
         IN IF mid * mid <= x THEN ISqrt(x, mid, hi) ELSE ISqrt(x, lo, mid - 1)

\* sqrt(a) for a >= 0.
Sqrt(a) ==
    IF a.m = 0 THEN Zero
    ELSE LET k == MantissaBits \div 2 + 3
             y == Normal(a)
             odd == y.e % 2 # 0
             m2 == IF odd THEN 2 * y.m ELSE y.m
             e2 == IF odd THEN y.e - 1 ELSE y.e
             x == m2 * Pow2(2 * k)
             r == ISqrt(x, 0, Pow2((MantissaBits + 1) \div 2 + k + 1))
         IN RoundToFloat(1, r, (e2 \div 2) - k, r * r # x)

\* a <= b for numbers of the format.
PosLeq(a, b) == a.e < b.e \/ (a.e = b.e /\ a.m <= b.m)

Leq(a, b) ==
    IF a.m <= 0 /\ b.m >= 0 THEN TRUE
    ELSE IF a.m > 0 /\ b.m > 0 THEN PosLeq(a, b)
    ELSE IF a.m < 0 /\ b.m < 0
         THEN PosLeq([b EXCEPT !.m = 0 - b.m], [a EXCEPT !.m = 0 - a.m])
         ELSE FALSE

One == FromInt(1)

MinusOne == FromInt(0 - 1)

Scales == {0, SmallScale, TinyScale}

ZeroVector == [comps |-> <<0, 0>>, scale |-> 0]

\* The vectors tried: the components are comps[i] * 2^-scale.
Vectors ==
    {[comps |-> c, scale |-> s] :
        c \in (((0 - MaxComp)..MaxComp) \X ((0 - MaxComp)..MaxComp)) \ {<<0, 0>>},
        s \in Scales} \cup {ZeroVector}

\* u[i] * v[i]
Product(u, v, i) ==
    LET n == u.comps[i] * v.comps[i]
    IN RoundToFloat(SignOf(n), Abs(n), 0 - (u.scale + v.scale), FALSE)

\* np.dot(vec1, vec2)
Dot(u, v) == Add(Product(u, v, 1), Product(u, v, 2))

\* np.linalg.norm(vec): sqrt(dot(vec, vec))
Norm(u) == Sqrt(Dot(u, u))

\* cosine_similarity with a guard: 0.0 when the divisor is zero.
CosineSimilarityGuarded(u, v) ==
    LET divisor == Mul(Norm(u), Norm(v))
    IN IF divisor.m = 0 THEN Zero ELSE Div(Dot(u, v), divisor)

\* cosine_similarity dividing by the first norm only.
CosineSimilarityOneNorm(u, v) == Div(Dot(u, v), Norm(u))

\* cosine_similarity dividing by the first norm twice.
CosineSimilarityFirstNormTwice(u, v) == Div(Dot(u, v), Mul(Norm(u), Norm(u)))

\* cosine_similarity(vec1, vec2)
CosineSimilarity(u, v) == Div(Dot(u, v), Mul(Norm(u), Norm(v)))

InitCos ==
    /\ cospc = "start"
    /\ vec1 = ZeroVector
    /\ vec2 = ZeroVector
    /\ dotProduct = Zero
    /\ normVec1 = Zero
    /\ normVec2 = Zero
    /\ cosSim = Zero

\* A call cosine_similarity(vec1, vec2): its locals and its result.
CallCosineSimilarity ==
    /\ cospc = "start"
    /\ \E u \in Vectors, v \in Vectors :
          /\ vec1' = u
          /\ vec2' = v
          /\ dotProduct' = Dot(u, v)
          /\ normVec1' = Norm(u)
          /\ normVec2' = Norm(v)
          /\ cosSim' = CosineSimilarity(u, v)
    /\ cospc' = "returned"
    /\ UNCHANGED <<chunkVars, ideaVars, ragVars, formVars>>

\* The next call.
NextCall ==
    /\ cospc = "returned"
    /\ cospc' = "start"
    /\ vec1' = ZeroVector
    /\ vec2' = ZeroVector
    /\ dotProduct' = Zero
    /\ normVec1' = Zero
    /\ normVec2' = Zero
    /\ cosSim' = Zero
    /\ UNCHANGED <<chunkVars, ideaVars, ragVars, formVars>>

NextCos == CallCosineSimilarity \/ NextCall

Init == InitChunk /\ InitIdea /\ InitRag /\ InitForm /\ InitCos

SpecChunk == Init /\ [][NextChunk]_vars

SpecIdea == Init /\ [][NextIdea]_vars

SpecRag == Init /\ [][NextRag]_vars

SpecForm == Init /\ [][NextForm]_vars

SpecCos == Init /\ [][NextCos]_vars

(***************************************************************************)
(* Claims about the chunker (SpecChunk).                                   *)
(***************************************************************************)
\* The document was split without error under a configuration the
\* specification calls valid, with a non-negative overlap.
SplitDone == cpc = "split" /\ ~splitError

ValidConfig == chunkSize > 0 /\ chunkOverlap >= 0 /\ chunkOverlap < chunkSize

\* The number of positions of the text that chunks i and i+1 both hold.
Shared(i) ==
    LET lo == IF chunks[i].lo > chunks[i + 1].lo THEN chunks[i].lo ELSE chunks[i + 1].lo
        hi == IF chunks[i].hi < chunks[i + 1].hi THEN chunks[i].hi ELSE chunks[i + 1].hi
    IN IF hi >= lo THEN hi - lo + 1 ELSE 0

\* The chunks in output order, each without the part its predecessor holds, concatenated.
RECURSIVE ReconstructFrom(_, _)
ReconstructFrom(i, covered) ==
    IF i > Len(chunks) THEN <<>>
    ELSE LET from == IF chunks[i].lo > covered THEN chunks[i].lo ELSE covered + 1
         IN SubSeq(text, from, chunks[i].hi)
            \o ReconstructFrom(i + 1, IF chunks[i].hi > covered THEN chunks[i].hi ELSE covered)

Reconstructed == ReconstructFrom(1, 0)

\* The positions of the text that some chunk holds.
Covered == {p \in 1..Len(text) : \E i \in 1..Len(chunks) : chunks[i].lo <= p /\ p <= chunks[i].hi}

\* The characters of the text at the positions P, in the text's order.
RECURSIVE Restrict(_, _)
Restrict(p, P) ==
    IF p > Len(text) THEN <<>>
    ELSE (IF p \in P THEN <<text[p]>> ELSE <<>>) \o Restrict(p + 1, P)

ConsecutiveChunksShareO ==
    (SplitDone /\ ValidConfig)
        => \A i \in 1..(Len(chunks) - 1) :
              LET a == Content(text, chunks[i])
                  b == Content(text, chunks[i + 1])
              IN /\ Len(a) >= chunkOverlap
                 /\ Len(b) >= chunkOverlap
                 /\ SubSeq(a, Len(a) - chunkOverlap + 1, Len(a)) = SubSeq(b, 1, chunkOverlap)

\* C7 amended: two consecutive chunks of one document share at most O
\* characters of it, and the later chunk neither starts nor ends before the
\* earlier one.
ConsecutiveChunksShareAtMostO ==
    (SplitDone /\ ValidConfig)
        => \A i \in 1..(Len(chunks) - 1) :
              /\ Shared(i) <= chunkOverlap
              /\ chunks[i].lo <= chunks[i + 1].lo
              /\ chunks[i].hi <= chunks[i + 1].hi

\* C7 witness: with O > 0, one pair of consecutive chunks shares exactly O
\* characters and another pair shares fewer.
OverlapWitness ==
    /\ SplitDone /\ ValidConfig
    /\ chunkOverlap > 0
    /\ \E i \in 1..(Len(chunks) - 1) : Shared(i) = chunkOverlap
    /\ \E i \in 1..(Len(chunks) - 1) : Shared(i) < chunkOverlap

\* C8 as stated: the chunks, overlap removed, concatenate to the document's content.
ChunksReconstructDocument ==
    (SplitDone /\ ValidConfig) => Reconstructed = text

\* C8 amended: the chunks, overlap removed, concatenate to the document's
\* content without some of its whitespace: the characters of the positions
\* the chunks hold, in the document's order, and every position no chunk
\* holds is whitespace.
ChunksReconstructUpToWhitespace ==
    (SplitDone /\ ValidConfig)
        => /\ Reconstructed = Restrict(1, Covered)
           /\ \A p \in 1..Len(text) : p \notin Covered => IsSpace(text[p])

\* C8 witness: a text of several chunks that lost whitespace between two chunks.
ReconstructWitness ==
    /\ SplitDone /\ ValidConfig
    /\ Len(chunks) >= 2
    /\ Reconstructed # text
    /\ \E p \in 2..(Len(text) - 1) : p \notin Covered

\* C9 as stated: a document shorter than S yields exactly one chunk, the whole document.
ShortDocumentOneWholeChunk ==
    (SplitDone /\ ValidConfig /\ Len(text) < chunkSize)
        => Len(chunks) = 1 /\ Content(text, chunks[1]) = text

\* C9 amended: a document shorter than S yields no chunk when it holds only
\* whitespace (or nothing), and otherwise exactly one chunk: the document
\* without its leading and trailing whitespace.
ShortDocumentOneStrippedChunk ==
    (SplitDone /\ ValidConfig /\ Len(text) < chunkSize)
        => IF \A p \in 1..Len(text) : IsSpace(text[p])
           THEN chunks = <<>>
           ELSE /\ Len(chunks) = 1
                /\ ~IsSpace(text[chunks[1].lo]) /\ ~IsSpace(text[chunks[1].hi])
                /\ \A p \in 1..Len(text) :
                      (p < chunks[1].lo \/ p > chunks[1].hi) => IsSpace(text[p])

\* C9 witness: a short document with whitespace at both ends gave one chunk
\* that is not the whole document.
ShortDocumentWitness ==
    /\ SplitDone /\ ValidConfig /\ Len(text) < chunkSize
    /\ Len(chunks) = 1
    /\ chunks[1].lo > 1 /\ chunks[1].hi < Len(text)

\* C10 as stated: the splitter reports an error exactly when S <= 0 or
\* O >= S, and splits every input without error when S > 0 and O < S.
ErrorExactlyWhenInvalid ==
    /\ cpc # "start"
          => (cpc = "ctor_error" <=> (chunkSize <= 0 \/ chunkOverlap >= chunkSize))
    /\ (cpc = "split" /\ chunkSize > 0 /\ chunkOverlap < chunkSize) => ~splitError

\* C10 amended: the splitter's constructor reports an error exactly when
\* O > S, and every input is split without error when S > 0 and 0 <= O < S.
ErrorExactlyWhenOverlapLarger ==
    /\ cpc # "start" => (cpc = "ctor_error" <=> chunkOverlap > chunkSize)
    /\ (cpc = "split" /\ ValidConfig) => ~splitError

\* C10 witness: a splitter with O = S > 0 was constructed and cut a text into chunks.
EqualOverlapWitness ==
    /\ SplitDone
    /\ chunkSize > 0 /\ chunkOverlap = chunkSize
    /\ Len(chunks) >= 2

(***************************************************************************)
(* Claims about execute_chain (SpecIdea).                                  *)
(***************************************************************************)
\* get_transcript_and_metadata has returned to execute_chain.
AfterLoad == ipc \in {"loaded", "summary", "idea", "returned", "chain_raised"}

\* The load gave no transcript: the loader raised, returned no document, or
\* the document has no title (which covers a URL without a video id, for
\* which the loader has nothing to load).
LoadFailed ==
    \/ loaded.kind = "raise"
    \/ loaded.kind = "docs" /\ loaded.docs = <<>>
    \/ loaded.kind = "docs" /\ loaded.docs # <<>>
          /\ "title" \notin DOMAIN loaded.docs[1].metadata

\* C1: when the transcript load failed, execute_chain goes nowhere but to
\* its return of ('Failed to load transcript.', 'Cannot generate content
\* ideas without transcript.'): overall_chain gets no inputs and no
\* language-model call is made.
FailedLoadAbortsEarly ==
    (AfterLoad /\ ipc # "loaded" /\ LoadFailed)
        => /\ ipc = "returned"
           /\ output = FailurePair
           /\ inputs = NoInputs
           /\ llmCalls = 0

\* C2: get_transcript_and_metadata never raises, and returns the first
\* document's (page_content, title) when the loader returned a document with
\* a title and (None, None) in every other case.
TranscriptPairOrNonePair ==
    /\ ipc # "load_raised"
    /\ AfterLoad
          => IF LoadFailed
             THEN transcript = <<None, None>>
             ELSE transcript = <<Str(loaded.docs[1].page_content),
                                 Str(loaded.docs[1].metadata.title)>>

\* C2 witness: the loader returned a document without a title, and
\* get_transcript_and_metadata returned (None, None).
MissingTitleWitness ==
    /\ ipc = "loaded"
    /\ loaded.kind = "docs" /\ loaded.docs # <<>>
    /\ "title" \notin DOMAIN loaded.docs[1].metadata
    /\ transcript = <<None, None>>

(***************************************************************************)
(* Claims about the question-answering chains (SpecRag).                   *)
(***************************************************************************)
\* C3: the sources reported with an answer are source identifiers of chunks
\* that were retrieved for that query, and no other identifier is reported.
ProvenanceOnlyFromRetrieved ==
    rpc = "answered" => sources \subseteq SourcesOf(retrieved)

\* The question's topic is in none of the ingested documents.
TopicAbsent == \A e \in index : e.topic # question.topic

\* C4: for a question whose topic no ingested document has, the answer is
\* "I don't know" and no source is cited that was not retrieved.
MissingContextDeclines ==
    (rpc = "answered" /\ TopicAbsent)
        => /\ answer = "I don't know"
           /\ sources \subseteq SourcesOf(retrieved)

\* C5: with only the document that holds the four laws of behavior change
\* ingested, the question about the laws has that document's chunk as its
\* first result and the answer cites that document and nothing else.
FourLawsCitesOnlyItsDocument ==
    (/\ rpc = "answered"
     /\ {e.source : e \in index} = {"Atomic Habits.md"}
     /\ question.text = "What are the laws of behavior change?")
        => /\ retrieved[1].chunk = "four laws of behavior change"
           /\ sources = {"Atomic Habits.md"}

(***************************************************************************)
(* Claims about the vector index (SpecRag).                                *)
(***************************************************************************)
\* The store has answered the current query.
Searched == rpc \in {"retrieved", "prompted", "generated", "answered"}

\* The entries the current query returned.
Returned == {retrieved[i] : i \in 1..Len(retrieved)}

\* The distance of an entry from the current query's vector: entries and
\* query vectors have the same length, so a smaller distance is a greater
\* cosine similarity.
FromQuery(e) == Distance(e.vec, queryVector.vec)

QueryVectors == {q.vec : q \in Questions}

EntriesOf(docs) == {docs[i] : i \in 1..Len(docs)}

Pipeline == <<"embed", "retrieve", "prompt", "llm", "return">>

RagQuery == chain \in {"query_with_sources", "retrieval_qa"}

\* C14: every query of a question-answering chain runs its stages in the
\* order embed, retrieve, render the prompt, call the language model, return,
\* each at most once and each after the one before; the language model is
\* not called before the store has returned, and a query that has returned
\* has run all five.
StagesRunInOrder ==
    RagQuery
        => /\ Len(stages) <= Len(Pipeline)
           /\ \A i \in 1..Len(stages) : stages[i] = Pipeline[i]
           /\ (\E i \in 1..Len(stages) : stages[i] = "llm")
                 => /\ Searched
                    /\ retrieved = SimilaritySearch(index, tieBreak, queryVector.vec, kArg)
                    /\ prompt = Format(PromptOf(chain), Stuff(retrieved), question.text)
           /\ rpc = "answered" => stages = Pipeline

\* C14 witness: a query of the podcast chain has returned, after retrieving
\* documents and calling the language model with them.
StagesWitness ==
    /\ rpc = "answered" /\ chain = "retrieval_qa"
    /\ stages = Pipeline
    /\ Len(retrieved) = DefaultK
    /\ completion.answer = "an answer"

\* The question of the current query has been embedded.
Embedded == rpc \in {"embedded", "retrieved", "prompted", "generated", "answered"}

\* C15: the model that embeds a query is the model that embedded the
\* ingested chunks, also after the index was re-opened: no query vector is
\* compared with index vectors of another model or of another length.
QueryEmbeddedByIndexModel ==
    /\ rpc # "empty" => embeddingFunction = embedding
    /\ Embedded
          => \A e \in index : /\ e.model = queryVector.model
                              /\ Len(e.vec) = Len(queryVector.vec)

\* C15 witness: the re-opened index compared a query vector with its entries
\* and returned some of them.
SameModelWitness ==
    /\ reopened /\ Searched
    /\ retrieved # <<>>
    /\ queryVector.model = embedding.model
    /\ \A e \in index : e.model = embedding.model

\* The podcast chain has given its prompt to the language model.
PodcastPromptSent == chain = "retrieval_qa" /\ rpc \in {"generated", "answered"}

\* The lines of the prompt from line j on are the lines s.
HoldsAt(j, s) == j + Len(s) - 1 <= Len(prompt) /\ SubSeq(prompt, j, j + Len(s) - 1) = s

\* C16: every prompt the podcast chain gives the language model holds the
\* texts of all retrieved chunks as its context, the user's question, and
\* the instruction to say that it does not know rather than make up an answer.
PromptHasContextQuestionInstruction ==
    PodcastPromptSent
        => /\ \E i \in 1..Len(prompt) : prompt[i] = DontKnowInstruction
           /\ \E i \in 1..Len(prompt) : prompt[i] = question.text
           /\ \E j \in 1..Len(prompt) :
                 /\ prompt[j] = "[Context]:"
                 /\ HoldsAt(j + 1, [i \in 1..Len(retrieved) |-> retrieved[i].chunk])

\* C16 witness: the podcast chain called the language model with a prompt
\* made from four retrieved chunks.
PromptWitness ==
    /\ PodcastPromptSent
    /\ Len(retrieved) = DefaultK
    /\ Len(prompt) = Len(template) - 2 + DefaultK + 1

\* A step of a query: every step between the call and the next cell.
QueryStep == rpc \notin {"empty", "ready"} \/ rpc' \notin {"empty", "ready"}

\* C19: after the ingest step the index is read-only: no step of
\* similarity_search, of the podcast chain or of query_with_sources changes
\* the index entries (vector, chunk, metadata), and nothing is written into
\* the persist directory.
QueriesLeaveIndexUnchanged ==
    [][QueryStep => (index' = index /\ disk' = disk)]_vars

\* C19 witness: a chain has returned an answer, and the index and the persist
\* directory hold the entries that were ingested.
ReadOnlyWitness ==
    /\ rpc = "answered" /\ RagQuery
    /\ answer = "an answer"
    /\ index # {} /\ index = built
    /\ disk = WriteStore(built)

(***************************************************************************)
(* Claims about the requests of the idea generator (SpecIdea).             *)
(***************************************************************************)
\* C18: within one request the transcript is loaded once and each language
\* model is called at most once, no stage runs after a stage that failed (no
\* model call after a failed transcript load, no idea call after a failed
\* summary call), and a request of which a stage failed returns no partial
\* result.
NoRetryNoLaterStageAfterFailure ==
    /\ llmCalls <= 2
    /\ ipc = "idea" => llmCalls = 1
    /\ (AfterLoad /\ LoadFailed) => llmCalls = 0
    /\ ipc = "chain_raised" => output = <<>>
    /\ (ipc = "returned" /\ output # FailurePair) => (llmCalls = 2 /\ output[1] = summary)

\* C20: overall_chain runs summary_chain first and idea_chain second; the
\* prompt of summary_chain gets the request's transcript and info_about_me,
\* the prompt of idea_chain gets the summary that summary_chain gave for this
\* request, info_about_me and info_about_audience; no chain starts with an
\* input variable unknown; and the result holds the summary and the content
\* ideas.
ChainsRunInOrderWithTheirInputs ==
    /\ missing = {}
    /\ Len(prompts) <= 2
    /\ Len(prompts) >= 1
          => /\ prompts[1].chain = "summary_chain"
             /\ DOMAIN prompts[1].values = {"transcript", "info_about_me"}
             /\ prompts[1].values["transcript"] = inputs.transcript
             /\ prompts[1].values["info_about_me"] = request.info_about_me
    /\ Len(prompts) = 2
          => /\ prompts[2].chain = "idea_chain"
             /\ DOMAIN prompts[2].values = {"summary", "info_about_me", "info_about_audience"}
             /\ summary \in Summaries
             /\ prompts[2].values["summary"] = summary
             /\ prompts[2].values["info_about_me"] = request.info_about_me
             /\ prompts[2].values["info_about_audience"] = request.info_about_audience
    /\ (ipc = "returned" /\ output # FailurePair)
          => /\ Len(prompts) = 2
             /\ Len(output) = 2
             /\ output[1] = summary
             /\ output[2] \in Ideas

\* C20 witness: a request of another creator for another audience returned
\* the summary and the content ideas of its two chains.
ChainsWitness ==
    /\ ipc = "returned"
    /\ request.info_about_me = "other creator"
    /\ request.info_about_audience = "other audience"
    /\ Len(prompts) = 2
    /\ output = <<"summary B", "ideas A">>

(***************************************************************************)
(* Claims about the calls made by the launched form (SpecForm).            *)
(***************************************************************************)
\* The calls of execute_chain that are in progress.
InProgress == {c \in Callers : calls[c].pc # "idle"}

\* What call c got from its own load.
OwnTranscript(c) == GetTranscriptAndMetadata(calls[c].loaded).value

\* Every call in progress holds what it made of its own arguments: the
\* outcome of loading its own URL, the transcript of that outcome, and a
\* result only once it has returned.
CallsKeepTheirOwnState ==
    \A c \in Callers :
       /\ calls[c].pc \in {"idle", "loading"}
             => calls[c].transcript = <<>> /\ calls[c].output = <<>>
       /\ calls[c].pc \in {"loaded", "chain", "returned", "raised"}
             => /\ calls[c].loaded \in LoaderOutcomes(ExtractVideoIdFromUrl(calls[c].url))
                /\ calls[c].transcript = OwnTranscript(c)
       /\ calls[c].pc # "returned" => calls[c].output = <<>>
       /\ calls[c].pc = "returned" => Len(calls[c].output) = 2

IdExtracted == ipc \notin {"idle", "loading"}

\* The positions of the query's non-empty values of 'v'.
VPositions(url) ==
    {i \in 1..Len(url.query) : url.query[i].key = "v" /\ url.query[i].value # <<>>}

\* C21: when the URL's network location contains 'youtube.com' the video id
\* is the first non-empty value of the 'v' query parameter, or None when
\* there is none; otherwise, when it contains 'youtu.be', the id is the path
\* without its leading '/' and without the query string; in every other
\* case, also when the URL has no scheme, the id is None.
VideoIdFollowsNetloc ==
    IdExtracted
        => LET u == request.url
           IN IF Contains(u.netloc, <<"youtube", ".", "com">>)
              THEN IF VPositions(u) = {}
                   THEN vidId = None
                   ELSE \E i \in VPositions(u) :
                           /\ \A j \in VPositions(u) : i <= j
                           /\ vidId = Str(u.query[i].value)
              ELSE IF Contains(u.netloc, <<"youtu", ".", "be">>)
                   THEN /\ vidId # None
                        /\ u.path # <<>> => u.path = <<"/">> \o vidId.val
                        /\ u.path = <<>> => vidId.val = <<>>
                   ELSE vidId = None

\* C21 witness: for https://youtu.be/Z6sCl6abJj4?si=... the id is exactly
\* Z6sCl6abJj4.
ShortLinkIdWitness ==
    /\ IdExtracted
    /\ request.url.netloc = <<"youtu", ".", "be">>
    /\ request.url.query # <<>>
    /\ vidId = Str(<<"Z6sCl6abJj4">>)

(***************************************************************************)
(* Claims about the chunks' metadata (SpecChunk).                          *)
(***************************************************************************)
\* C22: every chunk carries the metadata of the document it was cut from
\* (the source and, for a PDF page, the page number), unchanged.
ChunksInheritMetadata ==
    SplitDone
        => /\ Len(chunkMetadata) = Len(chunks)
           /\ \A i \in 1..Len(chunks) :
                 /\ chunkMetadata[i] = docMetadata
                 /\ chunkMetadata[i].source = docMetadata.source
                 /\ DOMAIN chunkMetadata[i] = DOMAIN docMetadata

\* C22 witness: a PDF page was cut into several chunks, and the last one has
\* the page's source and page number.
MetadataWitness ==
    /\ SplitDone /\ ValidConfig
    /\ Len(chunks) >= 2
    /\ "page" \in DOMAIN docMetadata
    /\ chunkMetadata[Len(chunks)].page = 42
    /\ chunkMetadata[Len(chunks)].source = "transcripts/PT693-Transcript.pdf"

(***************************************************************************)
(* Claims about the size of the prompt (SpecRag).                          *)
(***************************************************************************)
\* The context part of the podcast chain's prompt: the lines between
\* "[Context]:" and "[Question]:".
ContextOf(p) ==
    LET from == CHOOSE i \in 1..Len(p) : p[i] = "[Context]:"
        to == CHOOSE i \in 1..Len(p) : p[i] = "[Question]:" /\ i > from
    IN SubSeq(p, from + 1, to - 1)

Returned24 == cospc = "returned"

IsZeroVector(u) == u.comps = <<0, 0>>

\* u and v lie on one line through the origin.
Parallel(u, v) == u.comps[1] * v.comps[2] = u.comps[2] * v.comps[1]

\* The sign of the exact dot product of u and v.
IntDot(u, v) == u.comps[1] * v.comps[1] + u.comps[2] * v.comps[2]

SameDirection(u, v) == Parallel(u, v) /\ IntDot(u, v) > 0

OppositeDirection(u, v) == Parallel(u, v) /\ IntDot(u, v) < 0

\* A call has returned whose arguments are non-zero vectors of ordinary
\* magnitude (no square of a component underflows).
ReturnedForOrdinaryVectors ==
    /\ Returned24
    /\ ~IsZeroVector(vec1) /\ vec1.scale = 0
    /\ ~IsZeroVector(vec2) /\ vec2.scale = 0

\* 1 + 2^(2 - MantissaBits) and 1 - 2^(2 - MantissaBits): one, give or take
\* the rounding of the four operations of cosine_similarity.
UpperOne == [kind |-> "num", m |-> Pow2(MantissaBits - 1) + 2, e |-> 1 - MantissaBits]

LowerOne == [kind |-> "num", m |-> Pow2(MantissaBits) - 4, e |-> 0 - MantissaBits]

Negated(x) == [x EXCEPT !.m = 0 - x.m]

NearOne(x) == x.kind = "num" /\ Leq(LowerOne, x) /\ Leq(x, UpperOne)

NearMinusOne(x) == x.kind = "num" /\ Leq(Negated(UpperOne), x) /\ Leq(x, Negated(LowerOne))

\* x is dot(u, v) / (|u| |v|) up to rounding: x has the sign of the dot
\* product, and x^2 |u|^2 |v|^2 differs from dot(u, v)^2 by less than
\* 2^(4 - MantissaBits) of it (u, v of scale 0, in exact integers, x = m 2^e).
CloseToCosine(u, v, x) ==
    LET d == IntDot(u, v)
        lhs == x.m * x.m * IntDot(u, u) * IntDot(v, v)
        rhs == d * d * Pow2(0 - 2 * x.e)
    IN /\ x.kind = "num"
       /\ x.e <= 0
       /\ (d = 0) = (x.m = 0)
       /\ d # 0 => SignOf(d) = SignOf(x.m)
       /\ Abs(lhs - rhs) <= rhs \div Pow2(MantissaBits - 4)

\* C24 as stated: for every pair of non-zero vectors the value returned lies
\* in [-1, 1], is 1 when the vectors point in the same direction and is -1
\* when they point in opposite directions.  Stated for the vectors of
\* ordinary magnitude, the case least in doubt.
CosineInRange ==
    ReturnedForOrdinaryVectors =>
        /\ cosSim.kind = "num"
        /\ Leq(MinusOne, cosSim)
        /\ Leq(cosSim, One)
        /\ SameDirection(vec1, vec2) => cosSim = One
        /\ OppositeDirection(vec1, vec2) => cosSim = MinusOne

\* C24: for non-zero vectors of ordinary magnitude the value returned is
\* dot(vec1, vec2) / (|vec1| |vec2|) up to the rounding of the floating-point
\* operations: it lies in [-1, 1] widened by that rounding, is 1 up to that
\* rounding for vectors of the same direction and -1 up to that rounding for
\* vectors of opposite directions.
CosineUpToRounding ==
    ReturnedForOrdinaryVectors =>
        /\ CloseToCosine(vec1, vec2, cosSim)
        /\ Leq(Negated(UpperOne), cosSim)
        /\ Leq(cosSim, UpperOne)
        /\ SameDirection(vec1, vec2) => NearOne(cosSim)
        /\ OppositeDirection(vec1, vec2) => NearMinusOne(cosSim)

\* Two vectors of opposite directions whose similarity came out below -1,
\* within the rounding.
BelowMinusOneWitness ==
    /\ ReturnedForOrdinaryVectors
    /\ OppositeDirection(vec1, vec2)
    /\ cosSim # MinusOne
    /\ Leq(cosSim, MinusOne)
    /\ NearMinusOne(cosSim)

Divisor == Mul(normVec1, normVec2)

InMinusOneToOne(x) == x.kind = "num" /\ Leq(MinusOne, x) /\ Leq(x, One)

\* C30 as stated: the divisor norm_vec1 * norm_vec2 is non-zero exactly
\* when both arguments are non-zero vectors; with a zero vector the function
\* divides by zero and returns no value in [-1, 1].
DivisorZeroExactlyForZeroVector ==
    Returned24 =>
        /\ Divisor # Zero <=> (~IsZeroVector(vec1) /\ ~IsZeroVector(vec2))
        /\ (IsZeroVector(vec1) \/ IsZeroVector(vec2)) => ~InMinusOneToOne(cosSim)

\* C30: the division is not guarded: when either argument is the zero
\* vector the divisor is zero, the function divides zero by zero and returns
\* nan; whenever the divisor is zero (also for a non-zero vector whose norm
\* underflows) the value returned is nan or infinite, no value in [-1, 1].
ZeroVectorDividesByZero ==
    Returned24 =>
        /\ (IsZeroVector(vec1) \/ IsZeroVector(vec2)) =>
              /\ Divisor = Zero
              /\ dotProduct = Zero
              /\ cosSim = NaN
        /\ Divisor = Zero =>
              /\ cosSim.kind \in {"nan", "inf"}
              /\ ~InMinusOneToOne(cosSim)
        /\ Divisor # Zero => (~IsZeroVector(vec1) /\ ~IsZeroVector(vec2))

\* A call with one zero vector and one non-zero vector has returned.
ZeroVectorWitness ==
    /\ Returned24
    /\ IsZeroVector(vec1)
    /\ ~IsZeroVector(vec2)
    /\ cosSim = NaN

(***************************************************************************)
(* The order of the results (SpecRag), measured as the notebook's          *)
(* "Checking cosine similarity" cell measures it.                          *)
(***************************************************************************)
AsVector(v) == [comps |-> <<v[1], v[2]>>, scale |-> 0]

\* cosine_similarity of the question's embedding and an entry's embedding.
Similarity(e) == CosineSimilarity(AsVector(queryVector.vec), AsVector(e.vec))

Tuple(t) == [tag |-> "tuple", val |-> t]

\* C26: on every successful load the value passed to overall_chain under the
\* key 'transcript' is the transcript text doc.page_content: not the pair
\* (transcript, title), not None and not a pair of None values.
TranscriptInputIsTheText ==
    (AfterLoad /\ ~LoadFailed /\ inputs # NoInputs) =>
        LET passed == Tuple(inputs.transcript)
        IN /\ passed = Str(loaded.docs[1].page_content)
           /\ passed # Tuple(transcript)
           /\ passed # None
           /\ passed # Tuple(<<None, None>>)

\* The last n elements of s.
Suffix(s, n) == SubSeq(s, Len(s) - n + 1, Len(s))

\* The host netloc is the domain, or a subdomain of it.
HostWithin(netloc, domain) ==
    /\ Len(netloc) >= Len(domain)
    /\ Suffix(netloc, Len(domain)) = domain
    /\ Len(netloc) > Len(domain) => netloc[Len(netloc) - Len(domain)] = "."

YouTubeHost(netloc) ==
    \/ HostWithin(netloc, <<"youtube", ".", "com">>)
    \/ HostWithin(netloc, <<"youtu", ".", "be">>)

\* C27: extract_video_id_from_url returns a non-None id only for URLs whose
\* host is youtube.com or youtu.be or a subdomain of one of them, so that the
\* transcript loader is given no id taken from a URL of another host.
VideoIdOnlyFromYouTubeHosts ==
    vidId # None => YouTubeHost(request.url.netloc)

\* Two entries of the store hold the same chunk of the same document.
SameChunk(e, f) == e.chunk = f.chunk /\ e.source = f.source

\* C28: the index holds one entry per chunk over any number of runs of the
\* ingest step on one persist directory, so that no search returns the same
\* chunk twice.
OneEntryPerChunk ==
    /\ \A e \in index : \A f \in index : SameChunk(e, f) => e = f
    /\ Searched =>
          \A i \in 1..Len(retrieved) : \A j \in 1..Len(retrieved) :
              SameChunk(retrieved[i], retrieved[j]) => i = j

=============================================================================
